---- MODULE Spec2Model ----
(***************************************************************************)
(* Model of the marksheet upload page (src/src/pages/Upload.jsx): the      *)
(* component state, the user's gestures (select, drop, remove, submit) and *)
(* the callbacks of the XMLHttpRequest a submission starts; and of the     *)
(* scholarship list page (src/src/pages/Scholarships.jsx): its state, the  *)
(* user's gestures (category, search, retry) and the answers to its        *)
(* fetches.                                                                *)
(*                                                                         *)
(* A JavaScript value that may be null/undefined is a sequence of length   *)
(* 0 (absent) or 1 (present).  progress is a JavaScript number; the model  *)
(* keeps it as a fraction <<n, d>> in lowest terms, so that                *)
(* (e.loaded / e.total) * 50 is exact.                                     *)
(***************************************************************************)
EXTENDS Integers, Sequences, FiniteSets, TLC

VARIABLES
  file,                 \* useState(null): <<>> or <<[type, size]>>
  isUploading,          \* useState(false)
  progress,             \* useState(0): a fraction <<n, d>>
  currentStep,          \* useState(0): 0..3
  extractedData,        \* useState(null): <<>> or <<profile view model>>
  matchedScholarships,  \* useState(null): <<>> or <<list of matches>>
  xhrs,                 \* the XMLHttpRequests sent and not yet answered
  attempt,              \* history: the latest submission started
  toast,                \* history: the last notification shown
  lastOp,               \* history: <<the last operation that ran, the
                        \* submission it belongs to (0: a user gesture)>>
  parsed,               \* history: the body the normalisation last read
  scholarships,         \* Scholarships: useState([])
  loading,              \* Scholarships: useState(true)
  error,                \* Scholarships: useState(null)
  searchTerm,           \* Scholarships: useState('')
  selectedCategory,     \* Scholarships: useState('')
  fetches,              \* Scholarships: the fetch calls not yet answered
  latest                \* Scholarships, history: the fetch issued last

vars == <<file, isUploading, progress, currentStep, extractedData,
          matchedScholarships, xhrs, attempt, toast, lastOp, parsed,
          scholarships, loading, error, searchTerm, selectedCategory,
          fetches, latest>>

\* the state of the Scholarships page, which Upload never touches
pageVars == <<scholarships, loading, error, searchTerm, selectedCategory,
              fetches, latest>>

\* the state of the Upload page, which Scholarships never touches
uploadVars == <<file, isUploading, progress, currentStep, extractedData,
                matchedScholarships, xhrs, attempt, toast, parsed>>

ctrl == <<file, progress, currentStep, extractedData, matchedScholarships>>

----------------------------------------------------------------------------
(* Bounds *)

MaxAttempts == 2      \* submissions started in one behaviour
MaxTotal == 3         \* e.total of a progress event (in chunks)
MaxSubjects == 2      \* keys of subjects_marks in one answer
MaxRecs == 2          \* entries of recommendations in one answer
MaxFetches == 3       \* fetch calls of the Scholarships page

----------------------------------------------------------------------------
(* Numbers *)

RECURSIVE Gcd(_, _)
Gcd(a, b) == IF b = 0 THEN a ELSE Gcd(b, a % b)

\* the number n/d (d > 0, n >= 0) in lowest terms
Frac(n, d) == LET g == Gcd(n, d) IN <<n \div g, d \div g>>

Num(k) == <<k, 1>>

FracLeq(a, b) == a[1] * b[2] <= b[1] * a[2]

----------------------------------------------------------------------------
(* Files *)

MaxFileSize == 10 * 1024 * 1024

validTypes == {"application/pdf", "image/png", "image/jpeg", "image/jpg",
               "image/tiff", "image/bmp"}

OtherTypes == {"image/gif", ""}

\* the files the user can pick: every type at the sizes around the limit
AllFiles ==
  [type : validTypes \cup OtherTypes,
   size : {1, MaxFileSize, MaxFileSize + 1}]

\* the files picked while submissions run: two valid ones, one of each kind
\* of invalid one
CandidateFiles ==
  { [type |-> "application/pdf", size |-> 1],
    [type |-> "image/png", size |-> MaxFileSize],
    [type |-> "image/gif", size |-> 1],
    [type |-> "application/pdf", size |-> MaxFileSize + 1] }

----------------------------------------------------------------------------
(* Notifications (useToast) *)

NoToast == [kind |-> "none", msg |-> ""]
ErrorToast(m) == [kind |-> "error", msg |-> m]
SuccessToast(m) == [kind |-> "success", msg |-> m]

InvalidTypeMsg == "Invalid file type. Please upload PDF or image files."
TooLargeMsg == "File too large. Maximum size is 10MB."

----------------------------------------------------------------------------
(* validateAndSetFile *)

\* validate without the check of the declared type
validateNoTypeCheck(f) ==
  IF f.size > MaxFileSize THEN "size" ELSE "ok"

\* validate with the size limit off by one (>= for >)
validateSizeGeq(f) ==
  IF f.type \notin validTypes THEN "type"
  ELSE IF f.size >= MaxFileSize THEN "size"
  ELSE "ok"

\* the branch validateAndSetFile takes for f
validate(f) ==
  IF f.type \notin validTypes THEN "type"
  ELSE IF f.size > MaxFileSize THEN "size"
  ELSE "ok"

\* validateAndSetFile treating a rejection like a reset of the progress
validateAndSetFileResetsOnReject(f) ==
  /\ file' = IF validate(f) = "ok" THEN <<f>> ELSE file
  /\ toast' = CASE validate(f) = "type" -> ErrorToast(InvalidTypeMsg)
                [] validate(f) = "size" -> ErrorToast(TooLargeMsg)
                [] OTHER -> toast
  /\ progress' = IF validate(f) = "ok" THEN progress ELSE Num(0)
  /\ currentStep' = IF validate(f) = "ok" THEN currentStep ELSE 0
  /\ UNCHANGED <<isUploading, extractedData, matchedScholarships, xhrs,
                 attempt>>

\* validateAndSetFile calling setFile before the checks
validateAndSetFileSetsFirst(f) ==
  /\ file' = <<f>>
  /\ toast' = CASE validate(f) = "type" -> ErrorToast(InvalidTypeMsg)
                [] validate(f) = "size" -> ErrorToast(TooLargeMsg)
                [] OTHER -> toast
  /\ UNCHANGED <<isUploading, progress, currentStep, extractedData,
                 matchedScholarships, xhrs, attempt>>

validateAndSetFile(f) ==
  /\ file' = IF validate(f) = "ok" THEN <<f>> ELSE file
  /\ toast' = CASE validate(f) = "type" -> ErrorToast(InvalidTypeMsg)
                [] validate(f) = "size" -> ErrorToast(TooLargeMsg)
                [] OTHER -> toast
  /\ UNCHANGED <<isUploading, progress, currentStep, extractedData,
                 matchedScholarships, xhrs, attempt>>

\* onChange of the file input, the user having picked f
handleFileChange(f) ==
  /\ validateAndSetFile(f)
  /\ lastOp' = <<"change:" \o validate(f), 0>>
  /\ UNCHANGED <<parsed, pageVars>>

\* onDrop of the drop zone, the user having dropped f
handleDrop(f) ==
  /\ validateAndSetFile(f)
  /\ lastOp' = <<"drop:" \o validate(f), 0>>
  /\ UNCHANGED <<parsed, pageVars>>

----------------------------------------------------------------------------
(* removeFile *)

\* a remove button is on the page: the one next to the held file, or
\* "Upload Another Marksheet" under the results
RemoveRendered == file # <<>> \/ extractedData # <<>>

\* history only: a submission still in flight is superseded by a reset
Supersede(a) ==
  IF \E x \in xhrs : x.id = a.id
    THEN [a EXCEPT !.superseded = TRUE] ELSE a

\* removeFile without setMatchedScholarships(null)
removeFileKeepsMatches ==
  /\ RemoveRendered
  /\ file' = <<>>
  /\ progress' = Num(0)
  /\ currentStep' = 0
  /\ extractedData' = <<>>
  /\ attempt' = Supersede(attempt)
  /\ lastOp' = <<"remove", 0>>
  /\ UNCHANGED <<isUploading, matchedScholarships, xhrs, toast>>
  /\ UNCHANGED <<parsed, pageVars>>

removeFile ==
  /\ RemoveRendered
  /\ file' = <<>>
  /\ progress' = Num(0)
  /\ currentStep' = 0
  /\ extractedData' = <<>>
  /\ matchedScholarships' = <<>>
  /\ attempt' = Supersede(attempt)
  /\ lastOp' = <<"remove", 0>>
  /\ UNCHANGED <<isUploading, xhrs, toast, parsed, pageVars>>

----------------------------------------------------------------------------
(* The server's answer *)

Statuses == {200, 299, 300, 500}

None == <<>>
Some(v) == <<v>>

\* a JSON string is the sequence of its characters; a JSON number is held in
\* tenths (927 is 92.7)
JsString(s) == [type |-> "string", str |-> s, num |-> 0]
JsNumber(t) == [type |-> "number", str |-> <<>>, num |-> t]

Digits == <<"0", "1", "2", "3", "4", "5", "6", "7", "8", "9">>

IsDigit(c) == \E d \in DOMAIN Digits : Digits[d] = c

DigitValue(c) == (CHOOSE d \in DOMAIN Digits : Digits[d] = c) - 1

\* StrWhiteSpaceChar, as far as the inputs go
WhiteSpace == {" ", "\t", "\n"}

RECURSIVE DigitsOf(_)
\* the decimal digits of a natural number
DigitsOf(n) ==
  IF n < 10 THEN <<Digits[n + 1]>>
  ELSE Append(DigitsOf(n \div 10), Digits[(n % 10) + 1])

\* Number::toString of a number in tenths
NumberToString(t) ==
  LET a == IF t < 0 THEN -t ELSE t
  IN (IF t < 0 THEN <<"-">> ELSE <<>>)
       \o DigitsOf(a \div 10)
       \o (IF a % 10 = 0 THEN <<>> ELSE <<".", Digits[(a % 10) + 1]>>)

RECURSIVE TrimStart(_)
TrimStart(s) ==
  IF s # <<>> /\ Head(s) \in WhiteSpace THEN TrimStart(Tail(s)) ELSE s

RECURSIVE DigitPrefix(_, _)
\* the value of the longest prefix of s made of decimal digits, after acc
DigitPrefix(s, acc) ==
  IF s # <<>> /\ IsDigit(Head(s))
    THEN DigitPrefix(Tail(s), acc * 10 + DigitValue(Head(s)))
    ELSE acc

\* parseInt(value) with no radix, for strings that do not start with 0x:
\* ToString, trim, sign, the longest prefix of digits; None is NaN
parseInt(value) ==
  LET inputString == IF value.type = "string"
                       THEN value.str ELSE NumberToString(value.num)
      S == TrimStart(inputString)
      signed == S # <<>> /\ Head(S) \in {"+", "-"}
      sign == IF S # <<>> /\ Head(S) = "-" THEN -1 ELSE 1
      Z == IF signed THEN Tail(S) ELSE S
  IN IF Z = <<>> \/ ~IsDigit(Head(Z))
       THEN None
       ELSE Some(sign * DigitPrefix(Z, 0))

\* student_profile of the response body
Profiles ==
  { [name |-> Some("Asha"), percentage |-> Some(85), class |-> Some("12"),
     board |-> Some("CBSE"),
     subjects_marks |-> Some(<< [name |-> "Math",
                                 marks |-> JsNumber(920)] >>)],
    [name |-> None, percentage |-> None, class |-> None, board |-> None,
     subjects_marks |-> None] }

\* one entry of recommendations; match_score is in tenths (916 is 91.6)
Recs ==
  { [scholarship |-> Some([id |-> Some(7), title |-> Some("Merit"),
                           name |-> None, amount |-> Some(500),
                           provider |-> Some("NEF")]),
     match_score |-> Some(916), explanation |-> Some("good fit")],
    [scholarship |-> None, match_score |-> None, explanation |-> None] }

\* xhr.responseText: not JSON, the JSON null, or a JSON object.  A field the
\* object does not carry is None; success absent reads as false.
Bodies ==
  { [kind |-> k, success |-> FALSE, message |-> None, detail |-> None,
     student_profile |-> None, recommendations |-> None] :
       k \in {"invalid", "null"} }
  \cup
  [kind : {"object"}, success : {TRUE}, message : {None}, detail : {None},
   student_profile : {None} \cup {Some(p) : p \in Profiles},
   recommendations : {None} \cup {Some(<<r>>) : r \in Recs}]
  \cup
  [kind : {"object"}, success : {FALSE},
   message : {None, Some(""), Some("quota exceeded")}, detail : {None},
   student_profile : {None}, recommendations : {None}]
  \cup
  [kind : {"object"}, success : {FALSE}, message : {None},
   detail : {Some(""), Some("corrupt file")},
   student_profile : {None}, recommendations : {None}]

\* JavaScript's a || b on an optional string: "" and undefined are falsy
OrStr(a, b) == IF a = None \/ a = Some("") THEN b ELSE a[1]

\* JavaScript's a || b on an optional number: 0 and undefined are falsy
OrNum(a, b) == IF a = None \/ a = Some(0) THEN b ELSE a[1]

EmptyProfile ==
  [name |-> None, percentage |-> None, class |-> None, board |-> None,
   subjects_marks |-> None]

\* the object handed to setExtractedData without the fallback entry
ExtractedOfNoFallback(response) ==
  LET profile == IF response.student_profile = None
                   THEN EmptyProfile ELSE response.student_profile[1]
      entries == IF profile.subjects_marks = None
                   THEN <<>> ELSE profile.subjects_marks[1]
      subjects == [i \in DOMAIN entries |->
                     [name |-> entries[i].name,
                      marks |-> OrNum(parseInt(entries[i].marks), 0)]]
  IN [name |-> OrStr(profile.name, "Unknown"),
      percentage |-> IF OrNum(profile.percentage, 0) # 0
                       THEN ToString(profile.percentage[1]) \o "%"
                       ELSE "N/A",
      class |-> OrStr(profile.class, ""),
      board |-> OrStr(profile.board, ""),
      subjects |-> subjects]

\* the object handed to setExtractedData
ExtractedOf(response) ==
  LET profile == IF response.student_profile = None
                   THEN EmptyProfile ELSE response.student_profile[1]
      entries == IF profile.subjects_marks = None
                   THEN <<>> ELSE profile.subjects_marks[1]
      subjects == [i \in DOMAIN entries |->
                     [name |-> entries[i].name,
                      marks |-> OrNum(parseInt(entries[i].marks), 0)]]
  IN [name |-> OrStr(profile.name, "Unknown"),
      percentage |-> IF OrNum(profile.percentage, 0) # 0
                       THEN ToString(profile.percentage[1]) \o "%"
                       ELSE "N/A",
      class |-> OrStr(profile.class, ""),
      board |-> OrStr(profile.board, ""),
      subjects |-> IF Len(subjects) > 0 THEN subjects
                   ELSE << [name |-> "Overall",
                            marks |-> OrNum(profile.percentage, 0)] >>]

\* rounding that also clamps the result to 0..100
MathRoundClamped(t) ==
  LET r == (t + 5) \div 10
  IN IF r < 0 THEN 0 ELSE IF r > 100 THEN 100 ELSE r

\* Math.round of a number given in tenths: the nearest integer, halves up
MathRound(t) == (t + 5) \div 10

NoScholarship ==
  [id |-> None, title |-> None, name |-> None, amount |-> None,
   provider |-> None]

\* recommendations.map((rec, idx) => ...); idx is i - 1
ScholarshipListOf(response) ==
  LET recommendations == IF response.recommendations = None
                           THEN <<>> ELSE response.recommendations[1]
      sch(rec) == IF rec.scholarship = None
                    THEN NoScholarship ELSE rec.scholarship[1]
  IN [i \in DOMAIN recommendations |->
        LET rec == recommendations[i] IN
        [id |-> OrNum(sch(rec).id, (i - 1) + 1),
         title |-> OrStr(sch(rec).title, OrStr(sch(rec).name, "Scholarship")),
         match |-> MathRound(OrNum(rec.match_score, 0)),
         amount |-> IF OrNum(sch(rec).amount, 0) # 0
                      THEN "Rs. " \o ToString(sch(rec).amount[1])
                      ELSE "Amount varies",
         provider |-> OrStr(sch(rec).provider, ""),
         explanation |-> OrStr(rec.explanation, "")]]

----------------------------------------------------------------------------
(* The answers the normalisation is followed on *)

\* the keys of subjects_marks, in the order Object.entries yields them
SubjectNames == <<"Math", "Physics", "Chemistry", "Biology">>

\* the marks a key can carry: "92", "bad", "", "0", "-5", " 7%", 92.7,
\* -92.7 and 0
MarkValues ==
  { JsString(<<"9", "2">>), JsString(<<"b", "a", "d">>), JsString(<<>>),
    JsString(<<"0">>), JsString(<<"-", "5">>), JsString(<<" ", "7", "%">>),
    JsNumber(927), JsNumber(-927), JsNumber(0) }

\* subjects_marks: a mapping of at most MaxSubjects keys, as its entries
SubjectsMarks ==
  UNION { { [i \in 1..n |-> [name |-> SubjectNames[i], marks |-> f[i]]] :
              f \in [1..n -> MarkValues] } : n \in 0..MaxSubjects }

NormProfiles ==
  [name : {Some("Asha")}, percentage : {None, Some(0), Some(85)},
   class : {None}, board : {None},
   subjects_marks : {None} \cup {Some(m) : m \in SubjectsMarks}]

\* a scholarship of a recommendation with the given id
ScholarshipWith(id) ==
  [id |-> id, title |-> Some("Merit"), name |-> None, amount |-> None,
   provider |-> None]

\* recommendations with and without an id, scores between, above and below
\* 0 and 100 (in tenths)
NormRecs ==
  { [scholarship |-> Some(ScholarshipWith(Some(7))),
     match_score |-> Some(916), explanation |-> None],
    [scholarship |-> None, match_score |-> None, explanation |-> None],
    [scholarship |-> Some(ScholarshipWith(Some(0))),
     match_score |-> Some(1506), explanation |-> None],
    [scholarship |-> Some(ScholarshipWith(None)),
     match_score |-> Some(-15), explanation |-> None],
    [scholarship |-> Some(ScholarshipWith(Some(3))),
     match_score |-> Some(915), explanation |-> None],
    [scholarship |-> Some(ScholarshipWith(Some(9))),
     match_score |-> Some(-16), explanation |-> None] }

RecLists == UNION { [1..n -> NormRecs] : n \in 0..MaxRecs }

\* 2xx bodies with success true: every profile, and every list of
\* recommendations
NormBodies ==
  [kind : {"object"}, success : {TRUE}, message : {None}, detail : {None},
   student_profile : {Some(p) : p \in NormProfiles},
   recommendations : {None}]
  \cup
  [kind : {"object"}, success : {TRUE}, message : {None}, detail : {None},
   student_profile : {None},
   recommendations : {None} \cup {Some(l) : l \in RecLists}]

----------------------------------------------------------------------------
(* handleSubmit *)

SuccessMsg == "Marksheet processed successfully!"
TypeErrorMsg == "Cannot read properties of null (reading 'success')"

\* the submit button is on the page
SubmitRendered == extractedData = <<>>

\* the disabled attribute without the in-flight flag
SubmitDisabledNoFlag == file = <<>>

\* the submit button carries the disabled attribute
SubmitDisabled == file = <<>> \/ isUploading

\* history only: a submission just started; event is what the transport
\* delivered ("none", "load", "error"), status and body what a load carried
NewAttempt(id) ==
  [id |-> id, toasts |-> 0, superseded |-> FALSE, event |-> "none",
   status |-> 0, body |-> "none", outcome |-> "pending"]

\* handleSubmit without its guard on file: formData.append('file', null)
\* sends the text "null" in place of a file
handleSubmitNoGuard ==
  /\ attempt.id < MaxAttempts
  /\ isUploading' = TRUE
  /\ currentStep' = 2
  /\ progress' = Num(30)
  /\ \E total \in 1..MaxTotal :
       xhrs' = xhrs \cup {[id |-> attempt.id + 1,
                           file |-> IF file = <<>>
                                      THEN [type |-> "", size |-> 0]
                                      ELSE file[1],
                           loaded |-> 0, total |-> total]}
  /\ attempt' = NewAttempt(attempt.id + 1)
  /\ lastOp' = <<"submit:started", attempt.id + 1>>
  /\ UNCHANGED <<file, extractedData, matchedScholarships, toast>>
  /\ UNCHANGED <<parsed, pageVars>>

\* handleSubmit up to its await: the state writes and xhr.send
handleSubmit ==
  IF file = <<>>
    THEN /\ lastOp' = <<"submit:nofile", 0>>
         /\ UNCHANGED <<file, isUploading, progress, currentStep,
                        extractedData, matchedScholarships, xhrs, attempt,
                        toast, parsed, pageVars>>
    ELSE /\ attempt.id < MaxAttempts
         /\ isUploading' = TRUE
         /\ currentStep' = 2
         /\ progress' = Num(30)
         /\ \E total \in 1..MaxTotal :
              xhrs' = xhrs \cup {[id |-> attempt.id + 1, file |-> file[1],
                                  loaded |-> 0, total |-> total]}
         /\ attempt' = NewAttempt(attempt.id + 1)
         /\ lastOp' = <<"submit:started", attempt.id + 1>>
         /\ UNCHANGED <<file, extractedData, matchedScholarships, toast,
                        parsed, pageVars>>

\* the user clicks the submit button; a disabled button dispatches nothing
ClickSubmit ==
  /\ SubmitRendered
  /\ IF SubmitDisabled
       THEN /\ lastOp' = <<"submit:disabled", 0>>
            /\ UNCHANGED <<file, isUploading, progress, currentStep,
                           extractedData, matchedScholarships, xhrs,
                           attempt, toast, parsed, pageVars>>
       ELSE handleSubmit

Max(a, b) == IF a >= b THEN a ELSE b

\* the progress listener adding the fraction sent to the value shown:
\* setProgress(p => p + (e.loaded / e.total) * 50)
XhrProgressAccumulates(x) ==
  \E lengthComputable \in BOOLEAN, loaded \in Max(1, x.loaded)..x.total :
    /\ xhrs' = (xhrs \ {x}) \cup {[x EXCEPT !.loaded = loaded]}
    /\ progress' = IF lengthComputable
                     THEN Frac(progress[1] * x.total
                                 + loaded * 50 * progress[2],
                               progress[2] * x.total)
                     ELSE progress
    /\ lastOp' = <<"progress", x.id>>
    /\ UNCHANGED <<file, isUploading, currentStep, extractedData,
                   matchedScholarships, attempt, toast, parsed, pageVars>>

\* xhr.upload 'progress' listener
XhrProgress(x) ==
  \E lengthComputable \in BOOLEAN, loaded \in Max(1, x.loaded)..x.total :
    /\ xhrs' = (xhrs \ {x}) \cup {[x EXCEPT !.loaded = loaded]}
    /\ progress' = IF lengthComputable
                     THEN Frac(loaded * 50, x.total) ELSE progress
    /\ lastOp' = <<"progress", x.id>>
    /\ UNCHANGED <<file, isUploading, currentStep, extractedData,
                   matchedScholarships, attempt, toast, parsed, pageVars>>

\* history only: attempt i ended by event ev (a load carrying status st and
\* a body of kind bk) with the given outcome and number of notifications
Ended(i, ev, st, bk, out, n) ==
  IF i = attempt.id
    THEN [attempt EXCEPT !.event = ev, !.status = st, !.body = bk,
                         !.outcome = out, !.toasts = @ + n]
    ELSE attempt

\* catch (error) { showError(error.message || ...) } finally { ... }
Catch(x, ev, st, bk, message) ==
  /\ toast' = ErrorToast(OrStr(Some(message),
                "Failed to process marksheet. Please try again."))
  /\ isUploading' = FALSE
  /\ attempt' = Ended(x.id, ev, st, bk, "failure", 1)

\* the code after the await without the final setProgress(100)
AfterAwaitNoFinalProgress(x, status, response) ==
  /\ currentStep' = 3
  /\ progress' = Num(70)
  /\ IF response.kind = "null"
       THEN /\ Catch(x, "load", status, "null", TypeErrorMsg)
            /\ UNCHANGED <<extractedData, matchedScholarships>>
       ELSE IF response.success
         THEN /\ extractedData' = Some(ExtractedOf(response))
              /\ matchedScholarships' = Some(ScholarshipListOf(response))
              /\ toast' = SuccessToast(SuccessMsg)
              /\ isUploading' = FALSE
              /\ attempt' = Ended(x.id, "load", status, "object",
                                   "success", 1)
         ELSE /\ toast' = ErrorToast(OrStr(response.message,
                                           "Processing failed"))
              /\ isUploading' = FALSE
              /\ attempt' = Ended(x.id, "load", status, "object",
                                   "failure", 1)
              /\ UNCHANGED <<extractedData, matchedScholarships>>

\* the code after the await, for a parsed response
AfterAwait(x, status, response) ==
  /\ currentStep' = 3
  /\ IF response.kind = "null"
       THEN /\ progress' = Num(70)
            /\ Catch(x, "load", status, "null", TypeErrorMsg)
            /\ UNCHANGED <<extractedData, matchedScholarships>>
       ELSE IF response.success
         THEN /\ extractedData' = Some(ExtractedOf(response))
              /\ matchedScholarships' = Some(ScholarshipListOf(response))
              /\ progress' = Num(100)
              /\ toast' = SuccessToast(SuccessMsg)
              /\ isUploading' = FALSE
              /\ attempt' = Ended(x.id, "load", status, "object",
                                   "success", 1)
         ELSE /\ progress' = Num(70)
              /\ toast' = ErrorToast(OrStr(response.message,
                                           "Processing failed"))
              /\ isUploading' = FALSE
              /\ attempt' = Ended(x.id, "load", status, "object",
                                   "failure", 1)
              /\ UNCHANGED <<extractedData, matchedScholarships>>

\* xhr.status >= 200 && xhr.status < 300
StatusOk(status) == status >= 200 /\ status < 300

\* the message of a non-2xx answer without regard to its body
RejectMessageGeneric(body) == "Upload failed"

\* the message the load listener rejects with on a non-2xx status:
\* errorData.detail || 'Upload failed', and 'Upload failed' when reading
\* the detail throws (body not JSON, or the JSON null)
RejectMessage(body) ==
  IF body.kind = "object"
    THEN OrStr(body.detail, "Upload failed")
    ELSE "Upload failed"

\* xhr 'load' listener for a given status and responseText and, when it
\* settles the promise, the rest of handleSubmit
XhrLoadWith(x, status, body) ==
  /\ xhrs' = xhrs \ {x}
  /\ lastOp' = <<"load", x.id>>
  /\ UNCHANGED <<file, pageVars>>
  /\ IF StatusOk(status)
       THEN IF body.kind = "invalid"
              \* JSON.parse throws inside the listener: the promise is
              \* never settled and nothing after the await runs
              THEN /\ attempt' = Ended(x.id, "load", status, "invalid",
                                        "hung", 0)
                   /\ UNCHANGED <<isUploading, progress, currentStep,
                                  extractedData, matchedScholarships,
                                  toast>>
              ELSE AfterAwait(x, status, body)
       ELSE /\ Catch(x, "load", status, body.kind, RejectMessage(body))
            /\ UNCHANGED <<progress, currentStep, extractedData,
                           matchedScholarships>>

XhrLoad(x) ==
  /\ \E status \in Statuses, body \in Bodies : XhrLoadWith(x, status, body)
  /\ UNCHANGED parsed

\* the error listener with a failure sending the stage back to Idle
XhrErrorResetsStage(x) ==
  /\ xhrs' = xhrs \ {x}
  /\ lastOp' = <<"error", x.id>>
  /\ UNCHANGED <<parsed, pageVars>>
  /\ Catch(x, "error", 0, "none", "Network error")
  /\ currentStep' = 0
  /\ UNCHANGED <<file, progress, extractedData, matchedScholarships>>

\* the error listener sending the request again by itself
XhrErrorRetries(x) ==
  /\ xhrs' = (xhrs \ {x}) \cup {[x EXCEPT !.loaded = 0]}
  /\ lastOp' = <<"error", x.id>>
  /\ UNCHANGED <<parsed, pageVars>>
  /\ Catch(x, "error", 0, "none", "Network error")
  /\ UNCHANGED <<file, progress, currentStep, extractedData,
                 matchedScholarships>>

\* xhr 'error' listener
XhrError(x) ==
  /\ xhrs' = xhrs \ {x}
  /\ lastOp' = <<"error", x.id>>
  /\ UNCHANGED <<parsed, pageVars>>
  /\ Catch(x, "error", 0, "none", "Network error")
  /\ UNCHANGED <<file, progress, currentStep, extractedData,
                 matchedScholarships>>

\* the load listener on a 200 answer with one of the bodies above
XhrLoadNormalize(x) ==
  \E body \in NormBodies :
    /\ XhrLoadWith(x, 200, body)
    /\ parsed' = Some(body)

\* the transport delivers an event of a request in flight
OnProgress == \E x \in xhrs : XhrProgress(x)
OnLoad == \E x \in xhrs : XhrLoad(x)
OnError == \E x \in xhrs : XhrError(x)
OnLoadNormalize == \E x \in xhrs : XhrLoadNormalize(x)

----------------------------------------------------------------------------
(* Scholarships page *)

\* the values of the category select that are chosen: All Categories and two
\* of the categories
SelectedCategories == {"", "STEM", "Sports"}

\* the texts typed into the search box
SearchTerms == {"", " ", "merit"}

\* String.prototype.trim on the texts typed
Trim(t) == IF t = " " THEN "" ELSE t

\* the body the server answers a request with: a list that names the request
DataFor(r) ==
  << [id |-> Some(11), title |-> Some(r.kind \o ":" \o r.query),
      name |-> None, provider |-> Some("NEF"),
      category |-> IF r.kind = "list" /\ r.query # ""
                     THEN Some(r.query) ELSE None,
      amount |-> Some(500), deadline |-> Some("2025-03-31"),
      eligibility_criteria |->
        Some([description |-> None, min_percentage |-> Some(85)])],
     [id |-> None, title |-> None, name |-> Some("Grant"),
      provider |-> None, category |-> None, amount |-> None,
      deadline |-> None, eligibility_criteria |-> None] >>

\* formatEligibility for criteria that carry at most min_percentage
formatEligibility(criteria) ==
  IF criteria = None THEN None
  ELSE IF OrNum(criteria[1].min_percentage, 0) # 0
    THEN Some(ToString(criteria[1].min_percentage[1]) \o "% minimum")
    ELSE None

\* data.map((s, idx) => ...); idx is i - 1
Transform(data) ==
  [i \in DOMAIN data |->
     LET s == data[i] IN
     [id |-> OrNum(s.id, (i - 1) + 1),
      title |-> OrStr(s.title, OrStr(s.name, "Scholarship")),
      provider |-> OrStr(s.provider, "Unknown Provider"),
      category |-> OrStr(s.category, "General"),
      amount |-> IF OrNum(s.amount, 0) # 0
                   THEN "Rs. " \o ToString(s.amount[1])
                   ELSE "Amount varies",
      deadline |-> OrStr(s.deadline, "Rolling"),
      eligibility |->
        OrStr(IF s.eligibility_criteria = None
                THEN None ELSE s.eligibility_criteria[1].description,
              OrStr(formatEligibility(s.eligibility_criteria),
                    "Check details"))]]

Sample(id, title, provider, category, amount, deadline, eligibility) ==
  [id |-> id, title |-> title, provider |-> provider, category |-> category,
   amount |-> amount, deadline |-> deadline, eligibility |-> eligibility]

\* the sample data shown when the backend is unavailable
SampleData ==
  << Sample(1, "Merit Excellence Scholarship",
            "National Education Foundation", "Merit-Based", "Rs. 1,00,000",
            "2025-03-31", "85% and above"),
     Sample(2, "STEM Excellence Award", "Tech India Foundation", "STEM",
            "Rs. 75,000", "2025-02-28", "80% in Science/Math"),
     Sample(3, "First Generation Scholar", "Equal Opportunity Trust",
            "Need-Based", "Rs. 50,000", "2025-04-15",
            "First in family to attend college"),
     Sample(4, "Women in Technology", "WIT Foundation", "STEM",
            "Rs. 1,25,000", "2025-03-15", "Female students in tech"),
     Sample(5, "Sports Excellence Award", "Sports Authority", "Sports",
            "Rs. 60,000", "2025-05-01", "State-level sports achievement"),
     Sample(6, "Rural Development Scholarship", "Ministry of Education",
            "Need-Based", "Rs. 40,000", "2025-04-30",
            "Rural background students") >>

\* history only: the fetch issued last
Issued(kind, query) ==
  [id |-> latest.id + 1, kind |-> kind, query |-> query,
   outcome |-> "pending"]

\* history only: the request r has been answered
Answered(r, outcome) ==
  IF r.id = latest.id THEN [latest EXCEPT !.outcome = outcome] ELSE latest

\* fetchScholarships up to its await, run by a render whose selectedCategory
\* is category
fetchScholarships(category) ==
  /\ latest.id < MaxFetches
  /\ loading' = TRUE
  /\ error' = None
  /\ fetches' = fetches \cup {[id |-> latest.id + 1, kind |-> "list",
                               query |-> category]}
  /\ latest' = Issued("list", category)

\* onChange of the category select, and the effect on selectedCategory
setSelectedCategory(c) ==
  /\ c # selectedCategory
  /\ selectedCategory' = c
  /\ fetchScholarships(c)
  /\ lastOp' = <<"category", 0>>
  /\ UNCHANGED <<scholarships, searchTerm, uploadVars>>

\* onChange of the search box
setSearchTerm(t) ==
  /\ t # searchTerm
  /\ searchTerm' = t
  /\ lastOp' = <<"type", 0>>
  /\ UNCHANGED <<scholarships, loading, error, selectedCategory, fetches,
                 latest, uploadVars>>

\* searchScholarships up to its await (the Search button, or Enter)
searchScholarships ==
  /\ IF Trim(searchTerm) = ""
       THEN fetchScholarships(selectedCategory)
       ELSE /\ latest.id < MaxFetches
            /\ loading' = TRUE
            /\ fetches' = fetches \cup {[id |-> latest.id + 1,
                                         kind |-> "search",
                                         query |-> searchTerm]}
            /\ latest' = Issued("search", searchTerm)
            /\ UNCHANGED error
  /\ lastOp' = <<"search", 0>>
  /\ UNCHANGED <<scholarships, searchTerm, selectedCategory, uploadVars>>

\* the Retry button of the error panel
Retry ==
  /\ ~loading
  /\ error # None
  /\ fetchScholarships(selectedCategory)
  /\ lastOp' = <<"retry", 0>>
  /\ UNCHANGED <<scholarships, searchTerm, selectedCategory, uploadVars>>

\* how a fetch ends: a 2xx answer with a list, a non-2xx answer, a network
\* failure, a 2xx answer that is not a list
FetchEnds == {"ok", "notok", "rejected", "notarray"}

\* err.message for a list fetch that did not end well
ErrMessage(end) ==
  CASE end = "notok" -> "Failed to fetch scholarships"
    [] end = "rejected" -> "Failed to fetch"
    [] OTHER -> "data.map is not a function"

\* fetchScholarships after its await
fetchScholarshipsDone(r, end) ==
  /\ r.kind = "list"
  /\ fetches' = fetches \ {r}
  /\ IF end = "ok"
       THEN /\ scholarships' = Transform(DataFor(r))
            /\ UNCHANGED error
       ELSE /\ error' = Some(ErrMessage(end))
            /\ scholarships' = SampleData
  /\ loading' = FALSE
  /\ latest' = Answered(r, IF end = "ok" THEN "ok" ELSE "failed")
  /\ lastOp' = <<"list:" \o end, r.id>>
  /\ UNCHANGED <<searchTerm, selectedCategory, uploadVars>>

\* searchScholarships after its await
searchScholarshipsDone(r, end) ==
  /\ r.kind = "search"
  /\ fetches' = fetches \ {r}
  /\ IF end = "ok"
       THEN scholarships' = Transform(DataFor(r))
       ELSE UNCHANGED scholarships
  /\ loading' = FALSE
  /\ latest' = Answered(r, IF end = "ok" THEN "ok" ELSE "failed")
  /\ lastOp' = <<"search:" \o end, r.id>>
  /\ UNCHANGED <<error, searchTerm, selectedCategory, uploadVars>>

----------------------------------------------------------------------------
Init ==
  /\ file = <<>>
  /\ isUploading = FALSE
  /\ progress = Num(0)
  /\ currentStep = 0
  /\ extractedData = <<>>
  /\ matchedScholarships = <<>>
  /\ xhrs = {}
  /\ attempt = [NewAttempt(0) EXCEPT !.outcome = "none"]
  /\ toast = NoToast
  /\ lastOp = <<"init", 0>>
  /\ parsed = None
  /\ scholarships = <<>>
  /\ loading = TRUE
  /\ error = None
  /\ searchTerm = ""
  /\ selectedCategory = ""
  /\ fetches = {[id |-> 1, kind |-> "list", query |-> ""]}
  /\ latest = [id |-> 1, kind |-> "list", query |-> "", outcome |-> "pending"]

Next ==
  \/ \E f \in CandidateFiles : handleFileChange(f)
  \/ \E f \in CandidateFiles : handleDrop(f)
  \/ removeFile
  \/ ClickSubmit
  \/ OnProgress
  \/ OnLoad
  \/ OnError

Spec == Init /\ [][Next]_vars

\* the form's submit event reaches handleSubmit whatever the state of the
\* button (form.requestSubmit())
DispatchSubmit == handleSubmit

NextHandler ==
  \/ \E f \in CandidateFiles : handleFileChange(f)
  \/ removeFile
  \/ DispatchSubmit
  \/ OnError

SpecHandler == Init /\ [][NextHandler]_vars

\* selecting, dropping and removing files only, over every candidate file
NextSelect ==
  \/ \E f \in AllFiles : handleFileChange(f)
  \/ \E f \in AllFiles : handleDrop(f)
  \/ removeFile

SpecSelect == Init /\ [][NextSelect]_vars

\* one valid file submitted and answered with success, over every answer
NextNormalize ==
  \/ handleFileChange([type |-> "application/pdf", size |-> 1])
  \/ ClickSubmit
  \/ OnLoadNormalize

SpecNormalize == Init /\ [][NextNormalize]_vars

\* the Scholarships page: the user's gestures and the answers to the fetches
NextPage ==
  \/ \E c \in SelectedCategories : setSelectedCategory(c)
  \/ \E t \in SearchTerms : setSearchTerm(t)
  \/ searchScholarships
  \/ Retry
  \/ \E r \in fetches, end \in FetchEnds : fetchScholarshipsDone(r, end)
  \/ \E r \in fetches, end \in FetchEnds : searchScholarshipsDone(r, end)

SpecPage == Init /\ [][NextPage]_vars

----------------------------------------------------------------------------
(* Properties *)

Callbacks == {"progress", "load", "error"}

\* the step is a callback of a submission that no reset has superseded
LiveCallbackStep ==
  /\ lastOp'[1] \in Callbacks
  /\ lastOp'[2] = attempt.id
  /\ ~attempt.superseded

\* the step is a callback of a submission that a reset has superseded
StaleCallbackStep ==
  /\ lastOp'[1] \in Callbacks
  /\ lastOp'[2] = attempt.id
  /\ attempt.superseded

\* C1: within one submission attempt, with no reset in between, every value
\* written to progress is at least the value before it, and a successful
\* attempt ends with progress exactly 100.
C1_ProgressNonDecreasing ==
  [][LiveCallbackStep =>
       /\ FracLeq(progress, progress')
       /\ (attempt'.outcome = "success" => progress' = Num(100))]_vars

\* C2: a reset during a submission does not abort the request, and every
\* later callback of the superseded submission leaves file, progress, stage,
\* profile and matches as they are.
C2_StaleCallbacksIgnored ==
  [][/\ (lastOp'[1] = "remove" => xhrs' = xhrs)
     /\ (StaleCallbackStep => UNCHANGED ctrl)]_vars

\* a submission has started and has not reached a terminal outcome
Pending == attempt.outcome \in {"pending", "hung"}

SubmitOps == {"submit:started", "submit:disabled", "submit:nofile"}

\* C3: at most one request is in flight at any time, and a submit made while
\* a submission has not reached its terminal outcome starts no request and
\* changes no state.
C3_SingleFlight ==
  [][/\ Cardinality(xhrs') <= 1
     /\ (Pending /\ lastOp'[1] \in SubmitOps =>
           UNCHANGED <<file, isUploading, progress, currentStep,
                       extractedData, matchedScholarships, xhrs, attempt,
                       toast>>)]_vars

\* C3 witness: a click on the submit button, with a file held, was refused
\* while the request of the running submission was in flight.
C3_Witness ==
  /\ lastOp[1] = "submit:disabled"
  /\ file # <<>>
  /\ Cardinality(xhrs) = 1
  /\ attempt.outcome = "pending"

GenericMessages == {"Upload failed", "Network error",
                    "Failed to process marksheet. Please try again."}

\* C4: a response whose body is not JSON, whatever its status, ends the
\* submission as a failure: one failure notification with a generic
\* message, no profile or matches populated, the attempt terminated.
C4_MalformedJsonIsFailure ==
  [][(lastOp'[1] = "load" /\ attempt'.body = "invalid") =>
       /\ attempt'.outcome = "failure"
       /\ attempt'.toasts = 1
       /\ toast'.kind = "error"
       /\ toast'.msg \in GenericMessages
       /\ UNCHANGED <<extractedData, matchedScholarships>>]_vars

\* C5: once the transport has delivered the load or error event of a
\* submission, the in-flight flag is cleared, on every terminal path.
C5_FlagClearedOnEveryPath ==
  [][lastOp'[1] \in {"load", "error"} => ~isUploading']_vars

\* C6: a submission emits no notification before the transport's load or
\* error event, and exactly one once it has been delivered.
C6_ExactlyOneNotification ==
  attempt.toasts = IF attempt.event = "none" THEN 0 ELSE 1

\* the media types the allowed formats PDF, PNG, JPEG, TIFF, BMP are
\* declared with
AllowedMediaTypes == {"application/pdf", "image/png", "image/jpeg",
                      "image/jpg", "image/tiff", "image/bmp"}

\* the step is validate applied to candidate file f
ValidateStep(f) ==
  /\ lastOp'[2] = 0
  /\ handleFileChange(f) \/ handleDrop(f)

\* C7: validate rejects every candidate file whose declared media type is
\* not allowed, and the held file (a file or none) stays as it was.
C7_UnsupportedTypeRejected ==
  [][\A f \in AllFiles :
       (ValidateStep(f) /\ f.type \notin AllowedMediaTypes) =>
         /\ file' = file
         /\ toast' = ErrorToast(InvalidTypeMsg)]_vars

\* C7 witness: a file of an unsupported type was rejected while a file was
\* held.
C7_Witness ==
  /\ lastOp[1] \in {"change:type", "drop:type"}
  /\ toast = ErrorToast(InvalidTypeMsg)
  /\ file # <<>>

\* C8: a candidate file of an allowed type is rejected as too large exactly
\* when its size exceeds 10 MiB (10 MiB itself is accepted), a rejected file
\* leaves the held file as it was, and a file wrong in both type and size
\* gets the type error.
C8_SizeLimit ==
  [][\A f \in AllFiles : ValidateStep(f) =>
       /\ (f.type \in AllowedMediaTypes /\ f.size <= 10 * 1024 * 1024) =>
            /\ file' = <<f>>
            /\ toast' = toast
       /\ (f.type \in AllowedMediaTypes /\ f.size > 10 * 1024 * 1024) =>
            /\ file' = file
            /\ toast' = ErrorToast(TooLargeMsg)
       /\ (f.type \notin AllowedMediaTypes /\ f.size > 10 * 1024 * 1024) =>
            toast' = ErrorToast(InvalidTypeMsg)]_vars

\* C8 witness: a file of 10 MiB + 1 byte was rejected as too large while the
\* file of exactly 10 MiB accepted before it was held.
C8_Witness ==
  /\ lastOp[1] \in {"change:size", "drop:size"}
  /\ toast = ErrorToast(TooLargeMsg)
  /\ file # <<>>
  /\ file[1].size = MaxFileSize

\* C9: a successful validate holds the new file and clears the profile, the
\* matches and the progress state of the file before it.
C9_ValidateClearsResults ==
  [][\A f \in CandidateFiles :
       (ValidateStep(f) /\ f.type \in AllowedMediaTypes
          /\ f.size <= 10 * 1024 * 1024) =>
         /\ file' = <<f>>
         /\ extractedData' = <<>>
         /\ matchedScholarships' = <<>>
         /\ progress' = Num(0)
         /\ currentStep' = 0]_vars

\* C10: reset leaves no file, progress 0, stage Idle, no profile, no matches
\* and no submission in flight; a second reset changes nothing more.
C10_ResetIsIdle ==
  [][lastOp'[1] = "remove" =>
       /\ file' = <<>>
       /\ progress' = Num(0)
       /\ currentStep' = 0
       /\ extractedData' = <<>>
       /\ matchedScholarships' = <<>>
       /\ ~isUploading'
       /\ xhrs' = {}
       /\ (lastOp[1] = "remove" => UNCHANGED vars)]_vars


\* C11: handleSubmit invoked with no file held is a no-op: the in-flight
\* flag, progress, stage, profile and matches stay as they are, no request
\* is sent and no notification is shown.
C11_SubmitWithoutFileNoOp ==
  [][(file = <<>> /\ lastOp'[1] \in SubmitOps) =>
       UNCHANGED <<file, isUploading, progress, currentStep, extractedData,
                   matchedScholarships, xhrs, attempt, toast>>]_vars

\* C11 witness: handleSubmit ran with no file held and returned at its
\* guard.
C11_Witness ==
  /\ lastOp[1] = "submit:nofile"
  /\ file = <<>>

\* C12: while the request of the running submission is not fully sent the
\* stage is Uploading with progress within 0..50; once it is fully sent,
\* and before the response, progress is 70 and the stage is past Processing.
C12_StageFollowsSending ==
  \A x \in xhrs :
    (x.id = attempt.id /\ ~attempt.superseded) =>
      IF x.loaded < x.total
        THEN currentStep = 1 /\ FracLeq(progress, Num(50))
        ELSE currentStep = 3 /\ progress = Num(70)

\* the step is the load event of a 2xx answer whose JSON body has success
\* true (the history holds the status and the kind of body the load event
\* carried)
SuccessStep ==
  /\ lastOp'[1] = "load"
  /\ StatusOk(attempt'.status)
  /\ attempt'.body = "object"
  /\ \E x \in xhrs, status \in {attempt'.status}, body \in Bodies :
       /\ StatusOk(status)
       /\ body.kind = "object"
       /\ body.success
       /\ XhrLoadWith(x, status, body)

UnsuccessfulStep(message) ==
  /\ lastOp'[1] = "load"
  /\ StatusOk(attempt'.status)
  /\ attempt'.body = "object"
  /\ \E x \in xhrs, status \in {attempt'.status}, body \in Bodies :
       /\ StatusOk(status)
       /\ body.kind = "object"
       /\ ~body.success
       /\ body.message = message
       /\ XhrLoadWith(x, status, body)

Messages == {None, Some(""), Some("quota exceeded")}

\* C14: a 2xx response with success false shows the server's message (the
\* generic one when there is none), populates neither profile nor matches
\* and leaves progress and stage at the values they had when it arrived.
C14_UnsuccessfulKeepsProgress ==
  [][\A message \in Messages : UnsuccessfulStep(message) =>
       /\ toast' = ErrorToast(IF message \in {None, Some("")}
                                THEN "Processing failed" ELSE message[1])
       /\ UNCHANGED <<extractedData, matchedScholarships, progress,
                      currentStep>>]_vars

\* the step is the load event of a non-2xx answer with the given body
RejectedStep(body) ==
  /\ lastOp'[1] = "load"
  /\ attempt'.body = body.kind
  /\ ~StatusOk(attempt'.status)
  /\ \E x \in xhrs, status \in {attempt'.status} :
       /\ ~StatusOk(status)
       /\ XhrLoadWith(x, status, body)

C16_StageNeverRegresses ==
  [][currentStep' < currentStep => lastOp'[1] = "remove"]_vars

\* C16 as amended: the stage index decreases only at a reset, which
\* returns it to Idle, and at the start of a new submission, which restarts
\* it above Idle; no callback and no failure moves it backwards.
C16_StageRegressesOnlyOnResetOrSubmit ==
  [][/\ currentStep' < currentStep =>
          \/ lastOp'[1] = "remove" /\ currentStep' = 0
          \/ lastOp'[1] = "submit:started" /\ currentStep' = 2
     /\ (currentStep # 0 /\ currentStep' = 0) => lastOp'[1] = "remove"]_vars

\* C16 witness: a second submission has started after the first one failed
\* on a 2xx answer with success false, which had left the stage at 3.
C16_Witness ==
  /\ lastOp = <<"submit:started", 2>>
  /\ toast = ErrorToast("quota exceeded")
  /\ currentStep = 2

Rejections == {"change:type", "change:size", "drop:type", "drop:size"}

\* C17: a validate that rejects its file sends no request and leaves the
\* held file, progress, stage, in-flight flag, profile and matches as they
\* were; it only shows the error.
C17_RejectionOnlyNotifies ==
  [][\A f \in CandidateFiles :
       (ValidateStep(f) /\ (f.type \notin AllowedMediaTypes
                              \/ f.size > 10 * 1024 * 1024)) =>
         /\ UNCHANGED <<file, isUploading, progress, currentStep,
                        extractedData, matchedScholarships, xhrs, attempt>>
         /\ toast'.kind = "error"]_vars

\* C17 witness: a file was rejected while an upload was running with some
\* progress made.
C17_Witness ==
  /\ lastOp[1] \in Rejections
  /\ isUploading
  /\ xhrs # {}
  /\ progress # Num(0)
  /\ toast.kind = "error"

\* C18: a held file always has an allowed media type and at most 10 MiB.
C18_HeldFileIsValid ==
  file # <<>> =>
    /\ file[1].type \in AllowedMediaTypes
    /\ file[1].size <= 10 * 1024 * 1024

\* C18 witness: the file of exactly 10 MiB is still the held one after a
\* larger one was offered and a submission started.
C18_Witness ==
  /\ file # <<>>
  /\ file[1].size = MaxFileSize
  /\ toast = ErrorToast(TooLargeMsg)
  /\ attempt.id > 0

C20_OneRequestPerSubmit ==
  [][/\ lastOp'[1] = "submit:started" =>
          /\ xhrs \subseteq xhrs'
          /\ Cardinality(xhrs' \ xhrs) = 1
     /\ lastOp'[1] \in {"load", "error"} =>
          /\ xhrs' \subseteq xhrs
          /\ Cardinality(xhrs \ xhrs') = 1
     /\ lastOp'[1] = "progress" =>
          {x.id : x \in xhrs'} = {x.id : x \in xhrs}
     /\ lastOp'[1] \notin {"submit:started", "load", "error", "progress"} =>
          xhrs' = xhrs]_vars

\* C20 witness: a submission has failed and no request is in flight.
C20_Witness ==
  /\ lastOp[1] \in {"load", "error"}
  /\ attempt.outcome = "failure"
  /\ xhrs = {}
  /\ ~isUploading

\* C21: in every reachable state the progress value lies in [0, 100],
\* whatever progress events (0 <= loaded <= total) the transport delivers and
\* however they interleave with reset and re-submit.
C21_ProgressInRange ==
  /\ progress[2] > 0
  /\ FracLeq(Num(0), progress)
  /\ FracLeq(progress, Num(100))

\* a progress event of the second submission, after a reset, reports the
\* whole file sent
C21_Witness ==
  /\ lastOp = <<"progress", 2>>
  /\ attempt.id = 2
  /\ progress = Num(50)
  /\ \E x \in xhrs : x.id = 2 /\ x.loaded = x.total

\* the student_profile the normalisation read, the empty one when absent
ProfileRead ==
  IF parsed[1].student_profile = None
    THEN EmptyProfile ELSE parsed[1].student_profile[1]

\* a string of decimal digits only
IsDecimal(s) == s # <<>> /\ \A i \in DOMAIN s : IsDigit(s[i])

RECURSIVE DecimalValue(_)
\* the number a string of decimal digits denotes
DecimalValue(s) ==
  IF s = <<>> THEN 0
  ELSE DigitValue(s[Len(s)]) + 10 * DecimalValue(SubSeq(s, 1, Len(s) - 1))

\* m is the integer mark of the value v: the integer part of a number, the
\* value of a string of digits, 0 for a string without any digit
IsMarkOf(m, v) ==
  /\ m \in Int
  /\ (v.type = "number" /\ v.num >= 0) => m = v.num \div 10
  /\ (v.type = "number" /\ v.num < 0) => m = -((-v.num) \div 10)
  /\ (v.type = "string" /\ IsDecimal(v.str)) => m = DecimalValue(v.str)
  /\ (v.type = "string" /\ \A i \in DOMAIN v.str : ~IsDigit(v.str[i]))
       => m = 0

\* the mapping of the example: {Math: "92", Physics: "bad"}
ExampleMarks ==
  << [name |-> "Math", marks |-> JsString(<<"9", "2">>)],
     [name |-> "Physics", marks |-> JsString(<<"b", "a", "d">>)] >>

RecsRead ==
  IF parsed[1].recommendations = None
    THEN <<>> ELSE parsed[1].recommendations[1]

\* the step before was the normalisation of a recorded answer
Normalised == lastOp[1] = "load" /\ parsed # None

\* C23: the match of every recommendation is its match_score (0 when
\* absent) rounded to the nearest integer and not clamped to [0, 100]: 91.6
\* gives 92, an absent score 0, and a score above 100 or below 0 keeps its
\* rounded value.
C23_MatchIsRounded ==
  Normalised =>
    /\ Len(matchedScholarships[1]) = Len(RecsRead)
    /\ \A i \in DOMAIN RecsRead :
         LET score == RecsRead[i].match_score
             t == IF score = None THEN 0 ELSE score[1]
             m == matchedScholarships[1][i].match
         IN /\ m \in Int
            /\ 10 * m - t <= 5
            /\ t - 10 * m <= 5
            /\ score = Some(916) => m = 92
            /\ score = None => m = 0

\* a score of 150.6 has been normalised to 151 and one of -1.6 to -2
C23_Witness ==
  /\ Normalised
  /\ \E i, j \in DOMAIN RecsRead :
       /\ RecsRead[i].match_score = Some(1506)
       /\ matchedScholarships[1][i].match = 151
       /\ RecsRead[j].match_score = Some(-16)
       /\ matchedScholarships[1][j].match = -2

\* C24: the match list has one entry per recommendation, in the server's
\* order, and entry idx has the id of its scholarship, idx + 1 only when the
\* server supplies no id.
C24_IdFallbackOnlyWhenAbsent ==
  Normalised =>
    /\ Len(matchedScholarships[1]) = Len(RecsRead)
    /\ \A i \in DOMAIN RecsRead :
         LET scholarship == RecsRead[i].scholarship
             supplied == scholarship # None /\ scholarship[1].id # None
         IN matchedScholarships[1][i].id =
              IF supplied THEN scholarship[1].id[1] ELSE (i - 1) + 1

\* C25: the percentage of the extracted profile is the server's value
\* followed by "%" whenever student_profile.percentage is present ("0%" for
\* 0) and "N/A" only when it is absent.
C25_PercentageWheneverPresent ==
  Normalised =>
    extractedData[1].percentage =
      IF ProfileRead.percentage = None
        THEN "N/A" ELSE ToString(ProfileRead.percentage[1]) \o "%"

\* C26: whenever an extracted profile is present a file is held: no
\* interleaving of submit, transport callbacks and removeFile shows results
\* while no file is held.
C26_ResultsImplyFile == extractedData # <<>> => file # <<>>

\* C27: an extracted profile that is present was derived from the answer to
\* the upload of the held file: it appears only with the answer to a request
\* that carried the held file, and while it stays the held file stays.
C27_ResultsBelongToHeldFile ==
  [][extractedData' # <<>> =>
       IF lastOp'[1] = "load"
         THEN \E x \in xhrs : x.id = lastOp'[2] /\ file' = <<x.file>>
         ELSE extractedData' = extractedData /\ file' = file]_vars

\* C28: isUploading is true exactly while a request of the current attempt
\* is outstanding, and it is never true while no file is held.
C28_FlagTracksRequest ==
  /\ isUploading <=> \E x \in xhrs : x.id = attempt.id
  /\ file = <<>> => ~isUploading

\* C29: on the Scholarships page, once the answers to the list fetches are
\* in, the list displayed is the one for the category selected last,
\* whatever order the answers arrived in.
C29_LatestCategoryShown ==
  (fetches = {} /\ latest.kind = "list" /\ latest.outcome = "ok") =>
    /\ latest.query = selectedCategory
    /\ scholarships = Transform(DataFor(latest))

\* the operations that end a fetch or a search
Dones == {k \o ":" \o end : k \in {"list", "search"}, end \in FetchEnds}

\* C30: on the Scholarships page every fetch or search ends with loading
\* false, and after a search that ended well the results are shown: no error
\* of an earlier fetch is still set.
C30_SearchShowsResults ==
  /\ lastOp[1] \in Dones => ~loading
  /\ (lastOp[1] = "search:ok" /\ lastOp[2] = latest.id) =>
       /\ scholarships = Transform(DataFor(latest))
       /\ error = None
====
